---- MODULE Spec2Model ----
\* A state-machine model of muslytics: the iTunes catalog (ITunesUtils.py,
\* ITunesXMLParser.py) with its duplicate resolver, and the Spotify feature
\* fetcher (SpotifyTrackFinder.py).
EXTENDS Integers, Sequences, FiniteSets, TLC

\* ---------------------------------------------------------------- bounds
MaxTracks == 3          \* records imported into one library
MaxPlays == 1           \* play counts are 0..MaxPlays
MaxRating == 2          \* ratings are 1..MaxRating
MaxYear == 2            \* album years are 1..MaxYear
MaxMisfiled == 1        \* tracks a caller has filed with set_album_id or add_track

TrackNames == {"s"}
ArtistNames == {"X", "Y"}
ArtistLists == {<<"X">>, <<"Y", "X">>}
AlbumNames == {"A", "B"}
Years == 1..MaxYear
AlbumKeys == AlbumNames \X Years
Plays == 0..MaxPlays

MaxFetchTracks == 250   \* matched tracks handed to _get_audio_features
MaxFewTracks == 3       \* matched tracks of a run that needs one request only
MaxWaits == 2           \* 'too many requests' answers the service gives to one request
MaxBadPosition == 2     \* a response's incomplete entry is among its first MaxBadPosition

MaxNameLen == 2         \* characters of a track name handed to _is_track_match
MaxArtists == 2         \* artists of either side handed to _is_track_match
MaxSearchTracks == 2    \* library tracks handed to _get_spotify_track_ids
MaxResults == 2         \* candidates the search service returns for one track
MaxDepth == 6           \* nested _make_spotify_request calls the interpreter's stack holds

\* ---------------------------------------------------------------- program constants
MAX_RETRY == 3
SERVER_ERROR == 500
BAD_GATEWAY == 502
SERVICE_UNAVAILABLE == 503
RETRY_CODES == {SERVER_ERROR, BAD_GATEWAY, SERVICE_UNAVAILABLE}
WAIT_CODE == 429
NOT_FOUND == 404        \* a status that is neither in RETRY_CODES nor WAIT_CODE
MAX_REQUEST_TRACKS == 100

AUDIO_FEATURES ==
    <<"acousticness", "danceability", "duration_ms", "energy", "instrumentalness",
      "key", "liveness", "loudness", "mode", "speechiness", "tempo", "time_signature",
      "valence">>

\* ---------------------------------------------------------------- ratings
\* A rating is a rational <<numerator, denominator>> in lowest terms; Python's
\* None is NoRating.  (Python divides by the float dup_count, so the merged
\* rating is the true quotient, not the floor.)
NoRating == <<0, 0>>

RECURSIVE Gcd(_, _)
Gcd(a, b) == IF b = 0 THEN a ELSE Gcd(b, a % b)

Rat(n, d) == LET g == Gcd(n, d) IN IF g = 0 THEN <<0, 1>> ELSE <<n \div g, d \div g>>

RatAdd(p, q) == Rat(p[1] * q[2] + q[1] * p[2], p[2] * q[2])

Ratings == {Rat(r, 1) : r \in 1..MaxRating}

\* ---------------------------------------------------------------- state
VARIABLES
    tracks,                 \* ITunesLibrary.tracks : id -> track
    albums,                 \* ITunesLibrary.albums : (name, year) -> album
    artists,                \* ITunesLibrary.artists : name -> artist
    pc,                     \* "populate", then "running" (in remove_duplicates), then "done"
                            \* or "raised" (remove_duplicates ended with a KeyError)
    identifier_to_index,    \* remove_duplicates: identifier -> [track_id]
    duplicate_identifiers,  \* remove_duplicates: identifiers seen twice
    merged_tracks,          \* remove_duplicates: identifier -> (id, plays, rating, loved)
    cur_identifier,         \* identifier the removal loop is at (<<>> before the first)
    dup_index,              \* how many of its duplicates the inner loop has removed
    done_identifiers,       \* identifiers the removal loop has finished with
    pre_tracks,             \* history: tracks when remove_duplicates was called
    pre_albums,             \* history: albums when remove_duplicates was called
    pre_artists,            \* history: artists when remove_duplicates was called
    duplicate_order         \* history: identifier -> its ids in the order they were merged

libVars == <<tracks, albums, artists, pc, identifier_to_index, duplicate_identifiers,
             merged_tracks, cur_identifier, dup_index, done_identifiers, pre_tracks,
             pre_albums, pre_artists, duplicate_order>>

\* _get_audio_features and the _make_spotify_request it calls
VARIABLES
    spotify_tracks,     \* the argument tracks: a list of SpotifyTrack objects
    track_dict,         \* track_dict: Spotify id -> object (position in spotify_tracks)
    features,           \* object (position in spotify_tracks) -> its _features dict
    r_tracks,           \* the objects appended to r_tracks, in order
    lower_index,        \* lower_index
    fpc,                \* "loop", "request" (in _make_spotify_request), "returned",
                        \* "raised"; "combined" once the pipeline has joined the tracks
    combined,           \* combine_spotify_itunes_tracks: local id -> the Track built
    retried,            \* _make_spotify_request's argument retried
    audio_features,     \* audio_features: what _make_spotify_request returned last
    throttle,           \* how often the service answers one request 'too many requests'
    result,             \* history: what the last _make_spotify_request call came to
    attempts,           \* history: calls of deferred_request() for the request under way
    sleeps,             \* history: calls of sleep(5) for the request under way
    last_status,        \* history: http status of its last failed attempt, 0 if none
    requests,           \* history: the request_ids of the requests issued
    abandoned,          \* history: lower_index of the chunks skipped after an exception
    exhausted           \* history: lower_index of the chunks whose retries ran out

fetchVars == <<spotify_tracks, track_dict, features, r_tracks, lower_index, fpc, combined, retried,
               audio_features, throttle, result, attempts, sleeps, last_status, requests, abandoned,
               exhausted>>

\* _is_track_match
VARIABLES
    i_track,            \* the argument i_track: its name and artists
    s_track,            \* the argument s_track: its name (after strip_featured_artists
                        \* and unidecode) and its artists' names (split and unidecoded)
    mpc,                \* "call", "returned"
    name_matched,       \* name_matched, as the first _check_name_artist_matches gave it
    artist_matched,     \* artist_matched, as the first _check_name_artist_matches gave it
    is_match            \* the value returned

matchVars == <<i_track, s_track, mpc, name_matched, artist_matched, is_match>>

\* _get_spotify_track_ids; its requests go through _make_spotify_request too
VARIABLES
    search_tracks,      \* library.tracks in iteration order; a track's id is its position
    track_index,        \* how many of them the loop has dealt with
    spc,                \* "loop", "request" (in _make_spotify_request), "returned", "raised"
    matched_tracks,     \* matched_tracks
    searched,           \* history: track id -> the results of its search, or the failure
    skipped             \* history: ids of the tracks skipped in the except block

searchVars == <<search_tracks, track_index, spc, matched_tracks, searched, skipped>>

\* get_album_name (Utils.py)
VARIABLES
    album_name,         \* the album name of a record, as the library file gives it
    names               \* history: what the successive get_album_name calls returned

nameVars == <<album_name, names>>

\* ITunesLibrary's genre registry (utils.py)
VARIABLES
    _genre_map,         \* self._genre_map: genre -> key
    genre_calls         \* history: the get_genre_key calls, each with the key it returned

genreVars == <<_genre_map, genre_calls>>

\* What the fetcher and the resolver never touch.
parseVars == <<nameVars, genreVars>>

\* What _make_spotify_request keeps for the request under way.
requestVars == <<retried, result, attempts, sleeps, last_status>>

\* What of the fetcher a search leaves alone.
fetchOnlyVars == <<spotify_tracks, track_dict, features, r_tracks, lower_index, fpc, combined,
                   audio_features, throttle, requests, abandoned, exhausted>>

vars == <<libVars, fetchVars, matchVars, searchVars, parseVars>>

EmptyMap == [k \in {} |-> 0]

\* dict[key] = value
Put(f, k, v) == [x \in (DOMAIN f) \cup {k} |-> IF x = k THEN v ELSE f[x]]

\* del dict[key]
Del(f, k) == [x \in (DOMAIN f) \ {k} |-> f[x]]

\* ---------------------------------------------------------------- tracks
RECURSIVE Join(_)
Join(s) ==
    IF s = <<>> THEN ""
    ELSE IF Len(s) = 1 THEN s[1]
    ELSE s[1] \o "," \o Join(Tail(s))

get_track_identifier(t) == <<t.name, Join(t.artists)>>

SeqToSet(s) == {s[i] : i \in 1..Len(s)}

\* list.remove(x): drops the first occurrence of x
ListRemove(s, x) ==
    LET k == CHOOSE i \in 1..Len(s) : s[i] = x /\ \A j \in 1..(i - 1) : s[j] # x
    IN  SubSeq(s, 1, k - 1) \o SubSeq(s, k + 1, Len(s))


\* ---------------------------------------------------------------- population
InitLibrary ==
    /\ tracks = EmptyMap
    /\ albums = EmptyMap
    /\ artists = EmptyMap
    /\ pc = "populate"
    /\ identifier_to_index = EmptyMap
    /\ duplicate_identifiers = {}
    /\ merged_tracks = EmptyMap
    /\ cur_identifier = <<>>
    /\ dup_index = 0
    /\ done_identifiers = {}
    /\ pre_tracks = EmptyMap
    /\ pre_albums = EmptyMap
    /\ pre_artists = EmptyMap
    /\ duplicate_order = EmptyMap

scratchVars == <<identifier_to_index, duplicate_identifiers, merged_tracks, cur_identifier,
                 dup_index, done_identifiers, pre_tracks, pre_albums, pre_artists,
                 duplicate_order>>

\* The records of the import source: each differs from the base record in its
\* plays and loved flag, in its rating, or in its place in the catalog (artists,
\* album).  A record gives the name and the artist list as ITunesTrack.__init__
\* leaves them and the album name as get_album_name leaves it.
PlayRecords ==
    [name : TrackNames, artists : {<<"X">>}, album_id : {<<"A", 1>>},
     rating : {Rat(1, 1)}, plays : Plays, loved : BOOLEAN]

RatingRecords ==
    [name : TrackNames, artists : {<<"X">>}, album_id : {<<"A", 1>>},
     rating : Ratings, plays : {MaxPlays}, loved : {FALSE}]

PlaceRecords ==
    [name : TrackNames, artists : ArtistLists, album_id : AlbumKeys,
     rating : {Rat(1, 1)}, plays : {MaxPlays}, loved : {FALSE}]

Records == PlayRecords \cup RatingRecords \cup PlaceRecords

\* _add_track_to_library: the track joins its album, the album its main artist,
\* the track the library.  The import source numbers the tracks.
AddTrack(rec) ==
    LET id == Cardinality(DOMAIN tracks) + 1
        track == [id |-> id, name |-> rec.name, artists |-> rec.artists,
                  rating |-> rec.rating, plays |-> rec.plays, loved |-> rec.loved,
                  album_id |-> rec.album_id]
        album_key == rec.album_id
        album == IF album_key \in DOMAIN albums THEN albums[album_key]
                 ELSE [tracks |-> {}, artists |-> {}]
        main_artist_name == rec.artists[1]
        artist == IF main_artist_name \in DOMAIN artists THEN artists[main_artist_name]
                  ELSE [albums |-> {}]
    IN  /\ pc = "populate"
        /\ id <= MaxTracks
        /\ albums' = Put(albums, album_key,
                         [tracks |-> album.tracks \cup {id},
                          artists |-> album.artists \cup SeqToSet(rec.artists)])
        /\ artists' = Put(artists, main_artist_name,
                          [albums |-> artist.albums \cup {album_key}])
        /\ tracks' = Put(tracks, id, track)
        /\ UNCHANGED <<pc, scratchVars>>

\* ITunesTrack.set_rating, as a caller of the library may use it before the
\* duplicates are resolved: the rating may become None.
SetRating(id, rating) ==
    /\ pc = "populate"
    /\ id \in DOMAIN tracks
    /\ tracks[id].rating # rating
    /\ tracks' = [tracks EXCEPT ![id].rating = rating]
    /\ UNCHANGED <<albums, artists, pc, scratchVars>>

\* ITunesLibrary.add_artist with ITunesArtist.add_album, as a caller of the
\* library may use them: an artist the library does not know yet (a featured
\* artist) is entered with one of the library's albums.
AddArtist(name, album_id) ==
    /\ pc = "populate"
    /\ name \notin DOMAIN artists
    /\ album_id \in DOMAIN albums
    /\ artists' = Put(artists, name, [albums |-> {album_id}])
    /\ UNCHANGED <<tracks, albums, pc, scratchVars>>

\* The tracks that are not members of the album their album_id names.
Misfiled ==
    {id \in DOMAIN tracks :
        IF tracks[id].album_id \notin DOMAIN albums THEN TRUE
        ELSE id \notin albums[tracks[id].album_id].tracks}

\* The memberships (id, album key) of tracks in albums other than the one
\* their album_id names.
StrayMembers ==
    {m \in (DOMAIN tracks) \X (DOMAIN albums) :
        m[1] \in albums[m[2]].tracks /\ tracks[m[1]].album_id # m[2]}

\* ITunesTrack.set_album_id, as a caller of the library may use it: the track
\* names another album key, and neither the album table nor any member set
\* follows.
SetAlbumId(id, album_id) ==
    /\ pc = "populate"
    /\ id \in DOMAIN tracks
    /\ tracks[id].album_id # album_id
    /\ Cardinality(Misfiled) + Cardinality(StrayMembers) < MaxMisfiled
    /\ tracks' = [tracks EXCEPT ![id].album_id = album_id]
    /\ UNCHANGED <<albums, artists, pc, scratchVars>>

\* ITunesAlbum.add_track, as a caller of the library may use it: a track of
\* the library becomes a member of one more album, which takes its artists.
AddMember(id, album_id) ==
    /\ pc = "populate"
    /\ id \in DOMAIN tracks
    /\ album_id \in DOMAIN albums
    /\ id \notin albums[album_id].tracks
    /\ Cardinality(Misfiled) + Cardinality(StrayMembers) < MaxMisfiled
    /\ albums' = [albums EXCEPT ![album_id] =
                      [tracks |-> @.tracks \cup {id},
                       artists |-> @.artists \cup SeqToSet(tracks[id].artists)]]
    /\ UNCHANGED <<tracks, artists, pc, scratchVars>>

\* ---------------------------------------------------------------- remove_duplicates
Perms(S) == {f \in [1..Cardinality(S) -> S] : \A i, j \in DOMAIN f : f[i] = f[j] => i = j}

\* identifier_to_index and duplicate_identifiers after the first loop has seen
\* the tracks order[i], order[i+1], ...
RECURSIVE ScanLoop(_, _, _)
ScanLoop(order, i, acc) ==
    IF i > Len(order) THEN acc
    ELSE LET track_id == order[i]
             track_ident == get_track_identifier(tracks[track_id])
         IN  IF track_ident \in DOMAIN acc.identifier_to_index
             THEN ScanLoop(order, i + 1,
                      [identifier_to_index |->
                           [acc.identifier_to_index EXCEPT
                               ![track_ident] = Append(@, track_id)],
                       duplicate_identifiers |->
                           acc.duplicate_identifiers \cup {track_ident}])
             ELSE ScanLoop(order, i + 1,
                      [identifier_to_index |->
                           Put(acc.identifier_to_index, track_ident, <<track_id>>),
                       duplicate_identifiers |-> acc.duplicate_identifiers])

\* The call and its first loop; order is the order in which
\* self.tracks.iteritems() yields the tracks.
CallRemoveDuplicates(order) ==
    LET scanned == ScanLoop(order, 1, [identifier_to_index |-> EmptyMap,
                                       duplicate_identifiers |-> {}])
    IN  /\ pc = "populate"
        /\ pc' = "running"
        /\ pre_tracks' = tracks
        /\ pre_albums' = albums
        /\ pre_artists' = artists
        /\ identifier_to_index' = scanned.identifier_to_index
        /\ duplicate_identifiers' = scanned.duplicate_identifiers
        /\ UNCHANGED <<tracks, albums, artists, merged_tracks, cur_identifier, dup_index,
                       done_identifiers, duplicate_order>>

PreferCandidateCountFirst(year_diff, tracks_in_album, preferred_count) ==
    \/ tracks_in_album > preferred_count
    \/ tracks_in_album = preferred_count /\ year_diff > 0

\* Whether the candidate's album replaces the preferred one.
PreferCandidate(year_diff, tracks_in_album, preferred_count) ==
    \/ year_diff = 0 /\ tracks_in_album > preferred_count
    \/ year_diff > 0

\* album_preference after one more track of the group
NextPreference(album_preference, track) ==
    IF album_preference = <<>>
    THEN <<track.id, track.album_id, Cardinality(albums[track.album_id].tracks)>>
    ELSE IF track.album_id # album_preference[2]
    THEN LET year_diff == track.album_id[2] - album_preference[2][2]
             tracks_in_album == Cardinality(albums[track.album_id].tracks)
         IN  IF PreferCandidate(year_diff, tracks_in_album, album_preference[3])
             THEN <<track.id, track.album_id, tracks_in_album>>
             ELSE album_preference
    ELSE album_preference

AddPlaysOverwriting(plays, track) == track.plays

\* plays += track.plays
AddPlays(plays, track) == plays + track.plays

\* loved = loved or track.loved
AddLoved(loved, track) == loved \/ track.loved

\* sum_rating and dup_count after one more track of the group
AddRating(acc, track) ==
    IF track.rating # NoRating
    THEN [sum_rating |-> RatAdd(acc.sum_rating, track.rating),
          dup_count |-> acc.dup_count + 1]
    ELSE acc

MeanRatingTruncated(sum_rating, dup_count) ==
    IF dup_count # 0 THEN Rat(sum_rating[1] \div (sum_rating[2] * dup_count), 1)
    ELSE NoRating

\* rating = sum_rating / dup_count if dup_count else None
MeanRating(sum_rating, dup_count) ==
    IF dup_count # 0 THEN Rat(sum_rating[1], sum_rating[2] * dup_count) ELSE NoRating

\* The loop over one group's tracks, from the i-th on.
RECURSIVE MergeLoop(_, _, _)
MergeLoop(duplicate_tracks, i, acc) ==
    IF i > Len(duplicate_tracks) THEN acc
    ELSE LET track == duplicate_tracks[i]
             r == AddRating([sum_rating |-> acc.sum_rating, dup_count |-> acc.dup_count],
                            track)
         IN  MergeLoop(duplicate_tracks, i + 1,
                       [album_preference |-> NextPreference(acc.album_preference, track),
                        loved |-> AddLoved(acc.loved, track),
                        plays |-> AddPlays(acc.plays, track),
                        sum_rating |-> r.sum_rating,
                        dup_count |-> r.dup_count])

\* merged_tracks[duplicate_identifier]
MergeInfo(duplicate_identifier) ==
    LET duplicate_indexes == identifier_to_index[duplicate_identifier]
        duplicate_tracks == [i \in 1..Len(duplicate_indexes) |-> tracks[duplicate_indexes[i]]]
        acc == MergeLoop(duplicate_tracks, 1,
                         [album_preference |-> <<>>, loved |-> FALSE, plays |-> 0,
                          sum_rating |-> <<0, 1>>, dup_count |-> 0])
    IN  <<acc.album_preference[1], acc.plays,
          MeanRating(acc.sum_rating, acc.dup_count), acc.loved>>

\* Whether the iteration for track subscripts self.albums with a key the
\* table does not have: the first track's album is always looked up, a later
\* track's when it differs from the preferred one.
LookupFails(album_preference, track) ==
    /\ IF album_preference = <<>> THEN TRUE ELSE track.album_id # album_preference[2]
    /\ track.album_id \notin DOMAIN albums

\* Whether the loop over one group's tracks, from the i-th on, raises KeyError.
RECURSIVE MergeLoopRaises(_, _, _)
MergeLoopRaises(duplicate_tracks, i, album_preference) ==
    IF i > Len(duplicate_tracks) THEN FALSE
    ELSE IF LookupFails(album_preference, duplicate_tracks[i]) THEN TRUE
    ELSE MergeLoopRaises(duplicate_tracks, i + 1,
                         NextPreference(album_preference, duplicate_tracks[i]))

MergeRaises(duplicate_identifier) ==
    LET duplicate_indexes == identifier_to_index[duplicate_identifier]
        duplicate_tracks == [i \in 1..Len(duplicate_indexes) |-> tracks[duplicate_indexes[i]]]
    IN  MergeLoopRaises(duplicate_tracks, 1, <<>>)

\* One iteration of the second loop.
MergeDuplicates(duplicate_identifier) ==
    /\ pc = "running"
    /\ duplicate_identifier \in duplicate_identifiers \ DOMAIN merged_tracks
    /\ ~MergeRaises(duplicate_identifier)
    /\ merged_tracks' = Put(merged_tracks, duplicate_identifier,
                            MergeInfo(duplicate_identifier))
    /\ duplicate_order' = Put(duplicate_order, duplicate_identifier,
                              identifier_to_index[duplicate_identifier])
    /\ UNCHANGED <<tracks, albums, artists, pc, identifier_to_index,
                   duplicate_identifiers, cur_identifier, dup_index, done_identifiers,
                   pre_tracks, pre_albums, pre_artists>>

\* An iteration of the second loop that ends the call with a KeyError; the
\* loop has written to its locals only.
MergeDuplicatesRaises(duplicate_identifier) ==
    /\ pc = "running"
    /\ duplicate_identifier \in duplicate_identifiers \ DOMAIN merged_tracks
    /\ MergeRaises(duplicate_identifier)
    /\ pc' = "raised"
    /\ UNCHANGED <<tracks, albums, artists, scratchVars>>

MergeLoopSkipped == TRUE

\* Whether the second loop has ended.
MergeLoopOver == duplicate_identifiers = DOMAIN merged_tracks

\* Whether the inner loop over the current identifier's duplicates has ended.
InnerLoopOver ==
    IF cur_identifier = <<>> THEN TRUE
    ELSE dup_index >= Len(identifier_to_index[cur_identifier])

DiscardedWithSurvivor(duplicates, merged_id) == duplicates

\* duplicates.remove(merged_info[0])
Discarded(duplicates, merged_id) == ListRemove(duplicates, merged_id)

\* The head of one iteration of the third loop: the survivor leaves the list of
\* duplicates and takes the merged statistics.
MergeOnto(duplicate_identifier) ==
    LET merged_info == merged_tracks[duplicate_identifier]
    IN  /\ pc = "running"
        /\ MergeLoopOver
        /\ InnerLoopOver
        /\ duplicate_identifier \in (DOMAIN merged_tracks)
                                      \ (done_identifiers \cup {cur_identifier})
        /\ identifier_to_index' =
               [identifier_to_index EXCEPT
                   ![duplicate_identifier] = Discarded(@, merged_info[1])]
        /\ tracks' = [tracks EXCEPT ![merged_info[1]].plays = merged_info[2],
                                    ![merged_info[1]].rating = merged_info[3],
                                    ![merged_info[1]].loved = merged_info[4]]
        /\ done_identifiers' = IF cur_identifier = <<>> THEN done_identifiers
                               ELSE done_identifiers \cup {cur_identifier}
        /\ cur_identifier' = duplicate_identifier
        /\ dup_index' = 0
        /\ UNCHANGED <<albums, artists, pc, duplicate_identifiers, merged_tracks,
                       pre_tracks, pre_albums, pre_artists, duplicate_order>>

ArtistsWithoutAlbumKept(album_id, album) == artists

ArtistsWithoutAlbumEager(album_id, album) ==
    LET touched == {a \in album.artists :
                        a \in DOMAIN artists /\ album_id \in artists[a].albums}
    IN  [a \in (DOMAIN artists) \ touched |-> artists[a]]

\* self.artists after the emptied album album_id has been taken from the
\* artists the album lists
ArtistsWithoutAlbum(album_id, album) ==
    LET touched == {a \in album.artists :
                        a \in DOMAIN artists /\ album_id \in artists[a].albums}
        emptied == {a \in touched : artists[a].albums \ {album_id} = {}}
    IN  [a \in (DOMAIN artists) \ emptied |->
            IF a \in touched THEN [albums |-> artists[a].albums \ {album_id}]
            ELSE artists[a]]

MembershipUnguarded == FALSE

\* 'if artist_name in self.artists' and 'if album_id in albums' stand before
\* the subscript and the set.remove of the cascade.
MembershipGuarded == TRUE

\* Whether the cascade over the emptied album's artists raises KeyError.
CascadeRaises(album_id, album) ==
    /\ ~MembershipGuarded
    /\ \E a \in album.artists : a \notin DOMAIN artists \/ album_id \notin artists[a].albums

\* Whether removing duplicate_id raises KeyError: at self.albums[album_id], at
\* album.tracks.remove(duplicate_id), or in the cascade.
RemovalRaises(duplicate_id) ==
    LET album_id == tracks[duplicate_id].album_id
    IN  IF album_id \notin DOMAIN albums THEN TRUE
        ELSE IF duplicate_id \notin albums[album_id].tracks THEN TRUE
        ELSE /\ albums[album_id].tracks = {duplicate_id}
             /\ CascadeRaises(album_id, albums[album_id])

AlbumsWithoutKept(albumsNow, album_id) == albumsNow

\* self.albums after the emptied album has been deleted
AlbumsWithout(albumsNow, album_id) == Del(albumsNow, album_id)

\* One iteration of the inner loop: a duplicate is deleted, and with it its
\* album and the album's artists when they are left empty.
RemoveDuplicateTrack ==
    /\ pc = "running"
    /\ cur_identifier # <<>>
    /\ dup_index < Len(identifier_to_index[cur_identifier])
    /\ ~RemovalRaises(identifier_to_index[cur_identifier][dup_index + 1])
    /\ LET duplicate_id == identifier_to_index[cur_identifier][dup_index + 1]
           album_id == tracks[duplicate_id].album_id
           album == [albums[album_id] EXCEPT !.tracks = @ \ {duplicate_id}]
           albums1 == [albums EXCEPT ![album_id] = album]
       IN  /\ tracks' = Del(tracks, duplicate_id)
           /\ IF album.tracks = {}
              THEN /\ artists' = ArtistsWithoutAlbum(album_id, album)
                   /\ albums' = AlbumsWithout(albums1, album_id)
              ELSE /\ albums' = albums1
                   /\ UNCHANGED artists
    /\ dup_index' = dup_index + 1
    /\ UNCHANGED <<pc, identifier_to_index, duplicate_identifiers, merged_tracks,
                   cur_identifier, done_identifiers, pre_tracks, pre_albums,
                   pre_artists, duplicate_order>>

\* An iteration of the inner loop that ends the call with a KeyError: the
\* track has been deleted from self.tracks already, and from its album's
\* members when the error comes from the cascade.
RemoveDuplicateTrackRaises ==
    /\ pc = "running"
    /\ cur_identifier # <<>>
    /\ dup_index < Len(identifier_to_index[cur_identifier])
    /\ RemovalRaises(identifier_to_index[cur_identifier][dup_index + 1])
    /\ LET duplicate_id == identifier_to_index[cur_identifier][dup_index + 1]
           album_id == tracks[duplicate_id].album_id
       IN  /\ tracks' = Del(tracks, duplicate_id)
           /\ albums' = IF album_id \in DOMAIN albums
                        THEN [albums EXCEPT ![album_id].tracks = @ \ {duplicate_id}]
                        ELSE albums
    /\ pc' = "raised"
    /\ UNCHANGED <<artists, scratchVars>>

\* remove_duplicates returns.
ReturnRemoveDuplicates ==
    /\ pc = "running"
    /\ MergeLoopOver
    /\ InnerLoopOver
    /\ (DOMAIN merged_tracks) \subseteq (done_identifiers \cup {cur_identifier})
    /\ pc' = "done"
    /\ UNCHANGED <<tracks, albums, artists, scratchVars>>

\* ---------------------------------------------------------------- feature fetcher
Min(a, b) == IF a < b THEN a ELSE b

FeatureNames == SeqToSet(AUDIO_FEATURES)

\* Attribute values: a number, a string (a malformed attribute) or None.
Num(v) == <<"num", v>>
Str(v) == <<"str", v>>
NoValue == <<"none", 0>>

\* SpotifyTrack.__init__: every feature starts as None.
InitialFeatures == [f \in FeatureNames |-> NoValue]

\* The matched tracks: the k-th has local id k; with shared, the first two
\* library tracks were matched to one and the same Spotify id.
SpotifyId(k, shared) == IF shared /\ k = 2 THEN 1 ELSE k

\* SpotifyTrack(spotify_id, track_id, ...) with the candidate's popularity.
TrackList(n, shared) ==
    [k \in 1..n |->
        [id |-> SpotifyId(k, shared), i_id |-> k, popularity |-> 10 * SpotifyId(k, shared)]]

\* track_dict = {track.id: track for track in tracks}: a later track replaces
\* an earlier one of the same id.
TrackDict(list) ==
    [id \in {list[k].id : k \in 1..Len(list)} |->
        LET same == {k \in 1..Len(list) : list[k].id = id}
        IN  CHOOSE k \in same : \A m \in same : m <= k]

\* An entry of the feature service's response: null, or a dict of attributes.
NullEntry == [null |-> TRUE, attrs |-> <<>>]

FullEntry(id) == [null |-> FALSE, attrs |-> [f \in FeatureNames |-> Num(id)]]

MissingEntry(id) ==
    [null |-> FALSE, attrs |-> [f \in FeatureNames \ {"tempo"} |-> Num(id)]]

MalformedEntry(id) ==
    [null |-> FALSE,
     attrs |-> [f \in FeatureNames |-> IF f = "key" THEN Str(id) ELSE Num(id)]]

BadKinds == {"null", "missing", "malformed"}

BadEntry(kind, id) ==
    IF kind = "null" THEN NullEntry
    ELSE IF kind = "missing" THEN MissingEntry(id)
    ELSE MalformedEntry(id)

\* The service's answer to a bulk request: one entry per requested id, all
\* complete but the one at position bad (none when bad = 0).
Response(request_ids, bad, kind) ==
    [i \in 1..Len(request_ids) |->
        IF i = bad THEN BadEntry(kind, request_ids[i]) ELSE FullEntry(request_ids[i])]

\* None, the value _make_spotify_request falls through to (and the value of
\* audio_features before its first assignment, when nothing reads it).
NoResult == [none |-> TRUE, list |-> <<>>]

InitFetch(n, shared, waits) ==
    /\ spotify_tracks = TrackList(n, shared)
    /\ track_dict = TrackDict(TrackList(n, shared))
    /\ features = [k \in 1..n |-> InitialFeatures]
    /\ r_tracks = <<>>
    /\ lower_index = 0
    /\ fpc = "loop"
    /\ combined = EmptyMap
    /\ retried = 0
    /\ audio_features = NoResult
    /\ throttle = waits
    /\ result = "none yet"
    /\ attempts = 0
    /\ sleeps = 0
    /\ last_status = 0
    /\ requests = <<>>
    /\ abandoned = {}
    /\ exhausted = {}

num_tracks == Len(spotify_tracks)

UpperIndexShort(lower, n) == Min(lower + MAX_REQUEST_TRACKS - 1, n)

\* upper_index = min(lower_index + MAX_REQUEST_TRACKS, num_tracks)
UpperIndex(lower, n) == Min(lower + MAX_REQUEST_TRACKS, n)

upper_index == UpperIndex(lower_index, num_tracks)

\* request_ids = [track.id for track in tracks[lower_index:upper_index]]
RequestIds(lower, upper) == [i \in 1..(upper - lower) |-> spotify_tracks[lower + i].id]

\* The head of one iteration of the while loop: the request is made up and
\* handed to _make_spotify_request with retried = 0.
StartChunk ==
    /\ fpc = "loop"
    /\ lower_index < num_tracks
    /\ fpc' = "request"
    /\ retried' = 0
    /\ result' = "pending"
    /\ requests' = Append(requests, RequestIds(lower_index, upper_index))
    /\ UNCHANGED <<combined, spotify_tracks, track_dict, features, r_tracks, lower_index,
                   audio_features, throttle, attempts, sleeps, last_status, abandoned,
                   exhausted>>

\* for feature in AUDIO_FEATURES: track.__setattr__(feature, features[feature]),
\* from the i-th feature on; ok is FALSE when a lookup raised.
RECURSIVE SetFeatures(_, _, _)
SetFeatures(own, entry, i) ==
    IF i > Len(AUDIO_FEATURES) THEN [features |-> own, ok |-> TRUE]
    ELSE IF entry.null \/ AUDIO_FEATURES[i] \notin DOMAIN entry.attrs
    THEN [features |-> own, ok |-> FALSE]
    ELSE SetFeatures([own EXCEPT ![AUDIO_FEATURES[i]] = entry.attrs[AUDIO_FEATURES[i]]],
                     entry, i + 1)

\* One pass of the loop over zip(request_ids, audio_features): the entry is
\* set on the object track_dict gives for its id, and the object is appended
\* to r_tracks unless a lookup raised.
BindOne(id, entry, acc) ==
    LET track == track_dict[id]
        set == SetFeatures(acc.features[track], entry, 1)
    IN  [features |-> [acc.features EXCEPT ![track] = set.features],
         r_tracks |-> IF set.ok THEN Append(acc.r_tracks, track) ELSE acc.r_tracks]

\* The passes lo..hi of that loop, in order: the first half is evaluated, then
\* the second half on its outcome (r_tracks never shrinks).
RECURSIVE BindLoop(_, _, _, _, _)
BindLoop(request_ids, entries, lo, hi, acc) ==
    IF lo > hi THEN acc
    ELSE IF lo = hi THEN BindOne(request_ids[lo], entries[lo], acc)
    ELSE LET mid == (lo + hi) \div 2
             first == BindLoop(request_ids, entries, lo, mid, acc)
         IN  IF Len(first.r_tracks) >= Len(acc.r_tracks)
             THEN BindLoop(request_ids, entries, mid + 1, hi, first)
             ELSE first

\* The request under way is over: its counters start anew.
RequestOver ==
    /\ retried' = 0
    /\ attempts' = 0
    /\ sleeps' = 0
    /\ last_status' = 0

\* deferred_request() returns the service's response: it is bound to the
\* chunk's tracks and the loop goes on with the next chunk.
AttemptReturns(response) ==
    /\ fpc = "request"
    /\ result' = "response"
    /\ audio_features' = [none |-> FALSE, list |-> response]
    /\ LET bound == BindLoop(RequestIds(lower_index, upper_index), response, 1,
                             Min(upper_index - lower_index, Len(response)),
                             [features |-> features, r_tracks |-> r_tracks])
       IN  /\ features' = bound.features
           /\ r_tracks' = bound.r_tracks
    /\ lower_index' = upper_index
    /\ fpc' = "loop"
    /\ RequestOver
    /\ UNCHANGED <<combined, spotify_tracks, track_dict, throttle, requests, abandoned, exhausted>>

ShouldRetryAnyStatus(error_status, n) == n < MAX_RETRY

ShouldRetryOnceMore(error_status, n) == error_status \in RETRY_CODES /\ n <= MAX_RETRY

\* error_status in RETRY_CODES and retried < MAX_RETRY
ShouldRetry(error_status, n) == error_status \in RETRY_CODES /\ n < MAX_RETRY

ShouldWaitBounded(error_status, n) == error_status = WAIT_CODE /\ n < MAX_RETRY

\* elif error_status == WAIT_CODE
ShouldWait(error_status, n) == error_status = WAIT_CODE

\* deferred_request() raises a SpotifyException with this http status: the
\* request is tried again at once, or tried again after a sleep, or
\* _make_spotify_request returns None, on which zip(request_ids, None) raises
\* a TypeError outside the try block of _get_audio_features.
AttemptFails(error_status) ==
    /\ fpc = "request"
    /\ error_status = WAIT_CODE => sleeps < throttle
    /\ attempts' = attempts + 1
    /\ last_status' = error_status
    /\ IF ShouldRetry(error_status, retried)
       THEN /\ retried' = retried + 1
            /\ UNCHANGED <<fpc, sleeps, result, audio_features, exhausted>>
       ELSE IF ShouldWait(error_status, retried)
       THEN /\ sleeps' = sleeps + 1
            /\ retried' = retried + 1
            /\ UNCHANGED <<fpc, result, audio_features, exhausted>>
       ELSE /\ result' = "None"
            /\ audio_features' = NoResult
            /\ fpc' = "raised"
            /\ exhausted' = IF error_status \in RETRY_CODES
                            THEN exhausted \cup {lower_index} ELSE exhausted
            /\ UNCHANGED <<retried, sleeps>>
    /\ UNCHANGED <<combined, spotify_tracks, track_dict, features, r_tracks, lower_index, throttle,
                   requests, abandoned>>

\* deferred_request() raises something that is no SpotifyException: it leaves
\* _make_spotify_request, and the except block skips the chunk.
AttemptRaises ==
    /\ fpc = "request"
    /\ result' = "exception"
    /\ abandoned' = abandoned \cup {lower_index}
    /\ lower_index' = upper_index
    /\ fpc' = "loop"
    /\ RequestOver
    /\ UNCHANGED <<combined, spotify_tracks, track_dict, features, r_tracks, audio_features,
                   throttle, requests, exhausted>>

\* The throttle of a service that answers 'too many requests' as often as it
\* is asked: more often than the calls can nest.
Persistent == MaxDepth + 1

RoomOnStackAlways(n) == TRUE

\* _make_spotify_request calls itself for every further attempt ('return
\* _make_spotify_request(deferred_request, retried + 1)'), so the attempt made
\* with retried = n runs n calls deep; the interpreter lets calls nest up to
\* its recursion limit.
RoomOnStack(n) == n < MaxDepth

\* The nested call that exceeds the recursion limit raises the interpreter's
\* RuntimeError; no 'except SpotifyException' on the way out catches it, and
\* the except block of _get_audio_features skips the chunk.
RecursionLimitHit ==
    /\ fpc = "request"
    /\ ~RoomOnStack(retried)
    /\ result' = "recursion"
    /\ abandoned' = abandoned \cup {lower_index}
    /\ lower_index' = upper_index
    /\ fpc' = "loop"
    /\ RequestOver
    /\ UNCHANGED <<combined, spotify_tracks, track_dict, features, r_tracks, audio_features,
                   throttle, requests, exhausted>>

\* The while loop ends and r_tracks is returned.
ReturnTracks ==
    /\ fpc = "loop"
    /\ lower_index >= num_tracks
    /\ fpc' = "returned"
    /\ UNCHANGED <<combined, spotify_tracks, track_dict, features, r_tracks, lower_index, retried,
                   audio_features, throttle, result, attempts, sleeps, last_status, requests, abandoned,
                   exhausted>>

\* library.tracks as the pipeline hands it to combine_spotify_itunes_tracks:
\* the track of local id k.
LibraryTrack(k) == [id |-> k, plays |-> k, rating |-> Rat(k, 1), loved |-> (k % 2 = 1)]

\* Track(id=i_track.id, spotify_id=s_track.id, ...) for the object at position o.
CombinedTrack(o) ==
    LET library_track == LibraryTrack(spotify_tracks[o].i_id)
    IN  [id |-> library_track.id,
         spotify_id |-> spotify_tracks[o].id,
         plays |-> library_track.plays,
         rating |-> library_track.rating,
         loved |-> library_track.loved,
         popularity |-> spotify_tracks[o].popularity,
         features |-> features[o]]

\* combine_spotify_itunes_tracks(s_tracks, library.tracks) on the list
\* _get_audio_features returned: combined[i_track.id] = track for each of them.
CombineTracks ==
    /\ fpc = "returned"
    /\ fpc' = "combined"
    /\ combined' =
          [i \in {spotify_tracks[o].i_id : o \in SeqToSet(r_tracks)} |->
              CombinedTrack(CHOOSE o \in SeqToSet(r_tracks) : spotify_tracks[o].i_id = i)]
    /\ UNCHANGED <<spotify_tracks, track_dict, features, r_tracks, lower_index, retried,
                   audio_features, throttle, result, attempts, sleeps, last_status,
                   requests, abandoned, exhausted>>

\* ---------------------------------------------------------------- track matcher
\* A string is a sequence of characters: a lower-case letter, an upper-case
\* letter, a punctuation mark, the underscore and the blank.
Chars == {"a", "A", "!", "_", " "}

Texts == UNION {[1..n -> Chars] : n \in 0..MaxNameLen}

\* Artist names that differ in case or punctuation only, and one that differs.
ArtistTexts == {<<"a">>, <<"A">>, <<"a", "!">>, <<"b">>}

ArtistSets == {S \in SUBSET ArtistTexts : Cardinality(S) <= MaxArtists}

\* str.lower()
LowerChar(c) == IF c = "A" THEN "a" ELSE c

lower(string) == [i \in DOMAIN string |-> LowerChar(string[i])]

\* \s and \w of SPECIAL_CHAR_MATCH = '[^\s\w]+': \w is a letter, a digit or
\* the underscore.
IsSpace(c) == c = " "

IsWord(c) == c \in {"a", "A", "_"}

IsSpaceOrWord(c) == IsSpace(c) \/ IsWord(c)

\* ' '.join(string.split()): the words of the string, one blank between them.
RECURSIVE JoinSplit(_)
JoinSplit(string) ==
    IF string = <<>> THEN <<>>
    ELSE IF IsSpace(Head(string)) THEN JoinSplit(Tail(string))
    ELSE IF Len(string) >= 2 /\ IsSpace(string[2])
    THEN LET rest == JoinSplit(Tail(string))
         IN  IF rest = <<>> THEN <<Head(string)>> ELSE <<Head(string), " ">> \o rest
    ELSE <<Head(string)>> \o JoinSplit(Tail(string))

\* _remove_chars
_remove_chars(string) == JoinSplit(SelectSeq(string, IsSpaceOrWord))

\* i_name == s_name
NamesEqual(i_name, s_name) == i_name = s_name

ArtistsAllPresent(i_artists, s_artists) == i_artists \subseteq s_artists

\* len(i_artists - s_artists) < len(i_artists)
ArtistsOverlap(i_artists, s_artists) ==
    Cardinality(i_artists \ s_artists) < Cardinality(i_artists)

\* _check_name_artist_matches
_check_name_artist_matches(i_name, s_name, i_artists, s_artists) ==
    <<NamesEqual(i_name, s_name), ArtistsOverlap(i_artists, s_artists)>>

\* _is_track_match, from the first _check_name_artist_matches on.
SecondCheck(i_name, s_name, i_artists, s_artists, first) ==
    LET i_name2 == IF ~first[1] THEN _remove_chars(i_name) ELSE i_name
        s_name2 == IF ~first[1] THEN _remove_chars(s_name) ELSE s_name
        i_artists2 == IF ~first[2] THEN {_remove_chars(a) : a \in i_artists}
                      ELSE i_artists
        s_artists2 == IF ~first[2] THEN {_remove_chars(a) : a \in s_artists}
                      ELSE s_artists
        second == _check_name_artist_matches(i_name2, s_name2, i_artists2, s_artists2)
    IN  second[1] /\ second[2]

FirstCheck(i, s) ==
    _check_name_artist_matches(lower(i.name), lower(s.name),
                               {lower(a) : a \in i.artists},
                               {lower(a) : a \in s.artists})

_is_track_match(i, s) ==
    LET first == FirstCheck(i, s)
    IN  IF first[1] /\ first[2] THEN TRUE
        ELSE SecondCheck(lower(i.name), lower(s.name), {lower(a) : a \in i.artists},
                         {lower(a) : a \in s.artists}, first)

InitMatch(i, s) ==
    /\ i_track = i
    /\ s_track = s
    /\ mpc = "call"
    /\ name_matched = FALSE
    /\ artist_matched = FALSE
    /\ is_match = FALSE

\* One call of _is_track_match(i_track, s_track).
IsTrackMatch ==
    /\ mpc = "call"
    /\ mpc' = "returned"
    /\ name_matched' = FirstCheck(i_track, s_track)[1]
    /\ artist_matched' = FirstCheck(i_track, s_track)[2]
    /\ is_match' = _is_track_match(i_track, s_track)
    /\ UNCHANGED <<i_track, s_track>>

\* No call of _is_track_match is under way.
NoMatch == InitMatch([name |-> <<>>, artists |-> {}], [name |-> <<>>, artists |-> {}])

\* ---------------------------------------------------------------- identity matcher
\* Library tracks as the matcher sees them, and the candidates of a search.
SearchTrackSet ==
    {[name |-> <<"a">>, artists |-> {<<"a">>}],
     [name |-> <<"A", "!">>, artists |-> {<<"b">>, <<"a">>}]}

SearchLists == UNION {[1..n -> SearchTrackSet] : n \in 0..MaxSearchTracks}

FullCandidates ==
    {[id |-> e, name |-> nm, artists |-> {ar}, popularity |-> 10 * e] :
        e \in 1..MaxResults, nm \in {<<"a">>, <<"b">>}, ar \in {<<"a">>}}

\* A candidate whose dict lacks 'popularity'.
WithoutPopularity(c) == [f \in {"id", "name", "artists"} |-> c[f]]

Candidates == FullCandidates \cup {WithoutPopularity(c) : c \in FullCandidates}

ResultLists == UNION {[1..n -> Candidates] : n \in 0..MaxResults}

InitSearch(list) ==
    /\ search_tracks = list
    /\ track_index = 0
    /\ spc = "loop"
    /\ matched_tracks = <<>>
    /\ searched = EmptyMap
    /\ skipped = {}

NoSearch == InitSearch(<<>>)

\* The track the loop is at, and its id.
track_id == track_index + 1

\* The head of one iteration: _make_search_request calls
\* _make_spotify_request with retried = 0.
StartSearch ==
    /\ spc = "loop"
    /\ track_index < Len(search_tracks)
    /\ spc' = "request"
    /\ RequestOver
    /\ result' = "pending"
    /\ UNCHANGED <<search_tracks, track_index, matched_tracks, searched, skipped,
                   fetchOnlyVars>>

LastMatch(i, results) ==
    LET passing == {j \in 1..Len(results) : _is_track_match(i, results[j])}
    IN  IF passing = {} THEN 0 ELSE CHOOSE j \in passing : \A k \in passing : j >= k

FirstCandidate(i, results) == IF results = <<>> THEN 0 ELSE 1

\* for result in results: if _is_track_match(i_track, result): ... break
\* The position of the candidate the loop stops at, 0 when it runs to its end.
FirstMatch(i, results) ==
    LET passing == {j \in 1..Len(results) : _is_track_match(i, results[j])}
    IN  IF passing = {} THEN 0 ELSE CHOOSE j \in passing : \A k \in passing : j <= k

\* deferred_request() returns the search results.  The first passing candidate
\* becomes a SpotifyTrack; reading its 'popularity' raises a KeyError, outside
\* the try block, when the candidate has none.
SearchReturns(results) ==
    /\ spc = "request"
    /\ result' = "response"
    /\ searched' = Put(searched, track_id, [none |-> FALSE, list |-> results])
    /\ LET j == FirstMatch(search_tracks[track_id], results)
       IN  IF j = 0
           THEN /\ spc' = "loop"
                /\ track_index' = track_index + 1
                /\ UNCHANGED matched_tracks
           ELSE IF "popularity" \in DOMAIN results[j]
           THEN /\ matched_tracks' =
                       Append(matched_tracks,
                              [id |-> results[j].id, i_id |-> track_id,
                               name |-> search_tracks[track_id].name,
                               popularity |-> results[j].popularity])
                /\ spc' = "loop"
                /\ track_index' = track_index + 1
           ELSE /\ spc' = "raised"
                /\ UNCHANGED <<track_index, matched_tracks>>
    /\ RequestOver
    /\ UNCHANGED <<search_tracks, skipped, fetchOnlyVars>>

SubscriptOutsideTry == FALSE

\* results = _make_search_request(...)['tracks']['items'] stands in the try
\* block: the TypeError of subscripting None is caught there.
SubscriptInTry == TRUE

\* except Exception: ... continue
SkipTrack ==
    /\ skipped' = skipped \cup {track_id}
    /\ track_index' = track_index + 1
    /\ spc' = "loop"
    /\ UNCHANGED <<search_tracks, matched_tracks>>

\* deferred_request() raises a SpotifyException with this http status: the
\* search is tried again at once, or after a sleep, or _make_spotify_request
\* returns None, which the caller subscripts.
SearchFails(error_status) ==
    /\ spc = "request"
    /\ error_status = WAIT_CODE => sleeps < throttle
    /\ attempts' = attempts + 1
    /\ last_status' = error_status
    /\ IF ShouldRetry(error_status, retried)
       THEN /\ retried' = retried + 1
            /\ UNCHANGED <<sleeps, result, searchVars>>
       ELSE IF ShouldWait(error_status, retried)
       THEN /\ sleeps' = sleeps + 1
            /\ retried' = retried + 1
            /\ UNCHANGED <<result, searchVars>>
       ELSE /\ result' = "None"
            /\ searched' = Put(searched, track_id, NoResult)
            /\ IF SubscriptInTry
               THEN SkipTrack
               ELSE /\ spc' = "raised"
                    /\ UNCHANGED <<search_tracks, track_index, matched_tracks, skipped>>
            /\ UNCHANGED <<retried, sleeps>>
    /\ UNCHANGED fetchOnlyVars

\* deferred_request() raises something that is no SpotifyException, or the
\* response has no ['tracks']['items']: the except block skips the track.
SearchRaises ==
    /\ spc = "request"
    /\ result' = "exception"
    /\ searched' = Put(searched, track_id, NoResult)
    /\ SkipTrack
    /\ RequestOver
    /\ UNCHANGED fetchOnlyVars

\* The for loop ends and matched_tracks is returned.
ReturnMatched ==
    /\ spc = "loop"
    /\ track_index >= Len(search_tracks)
    /\ spc' = "returned"
    /\ UNCHANGED <<search_tracks, track_index, matched_tracks, searched, skipped,
                   fetchVars>>

\* ---------------------------------------------------------------- album names
\* An album name is a sequence of tokens: the characters and words
\* ALBUM_NAME_PATTERN tells apart, and "x" for any other character.
MaxAlbumLen == 5        \* tokens of an album name handed to get_album_name
MaxCalls == 2           \* get_album_name calls on one name: the parser's, and one on its result

Tokens == {" ", "-", "(", ")", "[", "]", "Single", "EP", "Deluxe", "x"}

AlbumTexts == UNION {[1..n -> Tokens] : n \in 0..MaxAlbumLen}

\* \s*, which is greedy: the position after the run of spaces that starts at i.
RECURSIVE SkipSpaces(_, _)
SkipSpaces(s, i) == IF i <= Len(s) /\ s[i] = " " THEN SkipSpaces(s, i + 1) ELSE i

\* \-\s*(Single|EP) at j: the position after the match, 0 if there is none.
SuffixEnd(s, j) ==
    IF j <= Len(s) /\ s[j] = "-"
    THEN LET k == SkipSpaces(s, j + 1)
         IN  IF k <= Len(s) /\ s[k] \in {"Single", "EP"} THEN k + 1 ELSE 0
    ELSE 0

\* A qualifier is stripped whatever it holds.
QualifiesAlways(s, d) == TRUE

\* What a qualifier must hold to be stripped: the word Deluxe.
Qualifies(s, d) == s[d] = "Deluxe"

\* \(.*Deluxe.*\) or \[.*Deluxe.*\] at j: the position after the match, 0 if
\* there is none. Both .* are greedy: the match runs to the last closing
\* character that has a Deluxe between it and the opening one.
QualifierEnd(s, j, open, close) ==
    IF j <= Len(s) /\ s[j] = open
    THEN LET closes == {c \in (j + 1)..Len(s) :
                           s[c] = close /\ \E d \in (j + 1)..(c - 1) : Qualifies(s, d)}
         IN  IF closes = {} THEN 0
             ELSE (CHOOSE c \in closes : \A other \in closes : other <= c) + 1
    ELSE 0

\* ALBUM_NAME_PATTERN at i: the position after the match, 0 if there is none.
MatchEnd(s, i) ==
    LET j == SkipSpaces(s, i)
        e == IF SuffixEnd(s, j) # 0 THEN SuffixEnd(s, j)
             ELSE IF QualifierEnd(s, j, "(", ")") # 0 THEN QualifierEnd(s, j, "(", ")")
             ELSE QualifierEnd(s, j, "[", "]")
    IN  IF e = 0 THEN 0 ELSE SkipSpaces(s, e)

\* re.sub(ALBUM_NAME_PATTERN, '', s) from position pos on: the leftmost match
\* is dropped and the search goes on behind it.
RECURSIVE sub(_, _)
sub(s, pos) ==
    IF pos > Len(s) THEN <<>>
    ELSE IF MatchEnd(s, pos) # 0 THEN sub(s, MatchEnd(s, pos))
    ELSE <<s[pos]>> \o sub(s, pos + 1)

RECURSIVE rstrip(_)
rstrip(s) == IF s # <<>> /\ s[Len(s)] = " " THEN rstrip(SubSeq(s, 1, Len(s) - 1)) ELSE s

\* name.strip()
strip(s) == rstrip(SubSeq(s, SkipSpaces(s, 1), Len(s)))

get_album_name(name) == sub(strip(name), 1)

InitName(name) ==
    /\ album_name = name
    /\ names = <<>>

NoName == InitName(<<>>)

\* One call of get_album_name: on the record's album name, then on what the
\* call before returned.
GetAlbumName ==
    /\ Len(names) < MaxCalls
    /\ names' = Append(names, get_album_name(IF names = <<>> THEN album_name
                                             ELSE names[Len(names)]))
    /\ UNCHANGED album_name

\* ---------------------------------------------------------------- genre registry
MaxGenreCalls == 4      \* get_genre_key calls on one library

UNKNOWN_GENRE == 0

\* Python's None, the key __init__ binds to UNKNOWN_GENRE.
None == "<None>"

Genres == {None, "Rock", "Pop", "Jazz"}

\* self._genre_map = {None: UNKNOWN_GENRE}
InitGenres ==
    /\ _genre_map = [genre \in {None} |-> UNKNOWN_GENRE]
    /\ genre_calls = <<>>

NoGenre == InitGenres

\* A new genre is given a key below the number of entries.
GenreValueBelow(map) == Cardinality(DOMAIN map) - 1

\* genre_value = len(self._genre_map)
GenreValue(map) == Cardinality(DOMAIN map)

get_genre_key(genre) ==
    /\ Len(genre_calls) < MaxGenreCalls
    /\ IF genre \in DOMAIN _genre_map
       THEN /\ genre_calls' = Append(genre_calls, [genre |-> genre, key |-> _genre_map[genre]])
            /\ UNCHANGED _genre_map
       ELSE /\ _genre_map' = Put(_genre_map, genre, GenreValue(_genre_map))
            /\ genre_calls' = Append(genre_calls,
                                     [genre |-> genre, key |-> GenreValue(_genre_map)])

\* ---------------------------------------------------------------- specifications
\* The library: population, then remove_duplicates.
NextLibrary ==
    \/ \E rec \in Records : AddTrack(rec) /\ UNCHANGED <<fetchVars, matchVars, searchVars, parseVars>>
    \/ \E id \in 1..MaxTracks : SetRating(id, NoRating) /\ UNCHANGED <<fetchVars, matchVars, searchVars, parseVars>>
    \/ \E name \in ArtistNames, album_id \in AlbumKeys :
          AddArtist(name, album_id) /\ UNCHANGED <<fetchVars, matchVars, searchVars, parseVars>>
    \/ \E order \in Perms(DOMAIN tracks) : CallRemoveDuplicates(order) /\ UNCHANGED <<fetchVars, matchVars, searchVars, parseVars>>
    \/ \E ident \in duplicate_identifiers : MergeDuplicates(ident) /\ UNCHANGED <<fetchVars, matchVars, searchVars, parseVars>>
    \/ \E ident \in duplicate_identifiers : MergeOnto(ident) /\ UNCHANGED <<fetchVars, matchVars, searchVars, parseVars>>
    \/ RemoveDuplicateTrack /\ UNCHANGED <<fetchVars, matchVars, searchVars, parseVars>>
    \/ ReturnRemoveDuplicates /\ UNCHANGED <<fetchVars, matchVars, searchVars, parseVars>>

\* An empty library; nothing to fetch.
Init == InitLibrary /\ InitFetch(0, FALSE, 0) /\ NoMatch /\ NoSearch /\ NoName /\ NoGenre

Spec == Init /\ [][NextLibrary]_vars

\* The library as any caller of its classes may build it: tracks placed on
\* albums, artists entered by hand, album ids set
\* by hand, tracks entered in further albums by hand; then remove_duplicates,
\* which may end with a KeyError.
NextCatalog ==
    \/ \E rec \in PlaceRecords : AddTrack(rec) /\ UNCHANGED <<fetchVars, matchVars, searchVars, parseVars>>
    \/ \E name \in ArtistNames, album_id \in AlbumKeys :
          AddArtist(name, album_id) /\ UNCHANGED <<fetchVars, matchVars, searchVars, parseVars>>
    \/ \E id \in 1..MaxTracks, album_id \in AlbumKeys :
          SetAlbumId(id, album_id) /\ UNCHANGED <<fetchVars, matchVars, searchVars, parseVars>>
    \/ \E id \in 1..MaxTracks, album_id \in AlbumKeys :
          AddMember(id, album_id) /\ UNCHANGED <<fetchVars, matchVars, searchVars, parseVars>>
    \/ \E order \in Perms(DOMAIN tracks) : CallRemoveDuplicates(order) /\ UNCHANGED <<fetchVars, matchVars, searchVars, parseVars>>
    \/ \E ident \in duplicate_identifiers : MergeDuplicates(ident) /\ UNCHANGED <<fetchVars, matchVars, searchVars, parseVars>>
    \/ \E ident \in duplicate_identifiers : MergeDuplicatesRaises(ident) /\ UNCHANGED <<fetchVars, matchVars, searchVars, parseVars>>
    \/ \E ident \in duplicate_identifiers : MergeOnto(ident) /\ UNCHANGED <<fetchVars, matchVars, searchVars, parseVars>>
    \/ RemoveDuplicateTrack /\ UNCHANGED <<fetchVars, matchVars, searchVars, parseVars>>
    \/ RemoveDuplicateTrackRaises /\ UNCHANGED <<fetchVars, matchVars, searchVars, parseVars>>
    \/ ReturnRemoveDuplicates /\ UNCHANGED <<fetchVars, matchVars, searchVars, parseVars>>

SpecCatalog == Init /\ [][NextCatalog]_vars

\* The fetcher, against a service that answers each attempt with a response
\* (one entry of which may be bad), an http error or another exception.
NextFetch ==
    \/ StartChunk /\ UNCHANGED <<libVars, matchVars, searchVars, parseVars>>
    \/ \E bad \in 0..MaxBadPosition :
          \E kind \in IF bad = 0 THEN {"null"} ELSE BadKinds :
              /\ AttemptReturns(Response(RequestIds(lower_index, upper_index), bad, kind))
              /\ UNCHANGED <<libVars, matchVars, searchVars, parseVars>>
    \/ \E error_status \in RETRY_CODES \cup {WAIT_CODE, NOT_FOUND} :
          AttemptFails(error_status) /\ UNCHANGED <<libVars, matchVars, searchVars, parseVars>>
    \/ AttemptRaises /\ UNCHANGED <<libVars, matchVars, searchVars, parseVars>>
    \/ ReturnTracks /\ UNCHANGED <<libVars, matchVars, searchVars, parseVars>>
    \/ CombineTracks /\ UNCHANGED <<libVars, matchVars, searchVars, parseVars>>

\* The list lengths at which the number or the size of the requests changes.
FetchSizes ==
    {n \in 0..MaxFetchTracks :
        n = MaxFetchTracks \/ n % MAX_REQUEST_TRACKS \in {0, 1, MAX_REQUEST_TRACKS - 1}}

\* The fetcher on lists of matched tracks that need up to three requests,
\* against a service that does not throttle.
InitBatches ==
    /\ InitLibrary
    /\ \E n \in FetchSizes, shared \in BOOLEAN : InitFetch(n, shared, 0)
    /\ NoMatch
    /\ NoSearch
    /\ NoName
    /\ NoGenre

SpecFetch == InitBatches /\ [][NextFetch]_vars

\* The fetcher on a short list of matched tracks, against a service that may
\* throttle: one request and its binding.
InitRequest ==
    /\ InitLibrary
    /\ \E n \in 0..MaxFewTracks, shared \in BOOLEAN : InitFetch(n, shared, MaxWaits)
    /\ NoMatch
    /\ NoSearch
    /\ NoName
    /\ NoGenre

SpecRequest == InitRequest /\ [][NextFetch]_vars

\* The fetcher with the depth of the nested calls taken into account.
NextThrottled ==
    \/ StartChunk /\ UNCHANGED <<libVars, matchVars, searchVars, parseVars>>
    \/ \E bad \in 0..MaxBadPosition :
          \E kind \in IF bad = 0 THEN {"null"} ELSE BadKinds :
              /\ RoomOnStack(retried)
              /\ AttemptReturns(Response(RequestIds(lower_index, upper_index), bad, kind))
              /\ UNCHANGED <<libVars, matchVars, searchVars, parseVars>>
    \/ \E error_status \in RETRY_CODES \cup {WAIT_CODE, NOT_FOUND} :
          /\ RoomOnStack(retried)
          /\ AttemptFails(error_status)
          /\ UNCHANGED <<libVars, matchVars, searchVars, parseVars>>
    \/ RoomOnStack(retried) /\ AttemptRaises /\ UNCHANGED <<libVars, matchVars, searchVars, parseVars>>
    \/ RecursionLimitHit /\ UNCHANGED <<libVars, matchVars, searchVars, parseVars>>
    \/ ReturnTracks /\ UNCHANGED <<libVars, matchVars, searchVars, parseVars>>

\* A short list of matched tracks, against a service that does not throttle,
\* throttles a few times, or throttles as long as it is asked.
InitThrottled ==
    /\ InitLibrary
    /\ \E waits \in {0, MaxWaits, Persistent} : InitFetch(MaxFewTracks, FALSE, waits)
    /\ NoMatch
    /\ NoSearch
    /\ NoName
    /\ NoGenre

\* An attempt under way ends in a failure unless it ends otherwise: with an
\* error of the service, or with the recursion error when the call cannot
\* nest.
AttemptEnds ==
    /\ \/ \E error_status \in RETRY_CODES \cup {WAIT_CODE, NOT_FOUND} :
             RoomOnStack(retried) /\ AttemptFails(error_status)
       \/ RecursionLimitHit
    /\ UNCHANGED <<libVars, matchVars, searchVars, parseVars>>

\* The program is single-threaded and its calls block until they return or
\* fail: an attempt under way does not hang.
SpecThrottled == InitThrottled /\ [][NextThrottled]_vars /\ WF_vars(AttemptEnds)

\* _is_track_match on every pair of a library track and a candidate.
InitIsMatch ==
    /\ InitLibrary
    /\ InitFetch(0, FALSE, 0)
    /\ NoSearch
    /\ NoName
    /\ NoGenre
    /\ \E i_name \in Texts, s_name \in Texts, i_artists \in ArtistSets, s_artists \in ArtistSets :
          InitMatch([name |-> i_name, artists |-> i_artists],
                    [name |-> s_name, artists |-> s_artists])

NextIsMatch == IsTrackMatch /\ UNCHANGED <<libVars, fetchVars, searchVars, parseVars>>

SpecIsMatch == InitIsMatch /\ [][NextIsMatch]_vars

\* _get_spotify_track_ids on short lists of library tracks, against a service
\* that answers each search with results, an http error or another exception.
InitSearches ==
    /\ InitLibrary
    /\ InitFetch(0, FALSE, 1)
    /\ NoMatch
    /\ NoName
    /\ NoGenre
    /\ \E list \in SearchLists : InitSearch(list)

NextSearch ==
    \/ StartSearch /\ UNCHANGED <<libVars, matchVars, parseVars>>
    \/ \E results \in ResultLists : SearchReturns(results) /\ UNCHANGED <<libVars, matchVars, parseVars>>
    \/ \E error_status \in RETRY_CODES \cup {WAIT_CODE, NOT_FOUND} :
          SearchFails(error_status) /\ UNCHANGED <<libVars, matchVars, parseVars>>
    \/ SearchRaises /\ UNCHANGED <<libVars, matchVars, parseVars>>
    \/ ReturnMatched /\ UNCHANGED <<libVars, matchVars, parseVars>>

SpecSearch == InitSearches /\ [][NextSearch]_vars

\* get_album_name on every album name of up to MaxAlbumLen tokens.
InitAlbumNames ==
    /\ InitLibrary
    /\ InitFetch(0, FALSE, 0)
    /\ NoMatch
    /\ NoSearch
    /\ NoGenre
    /\ \E name \in AlbumTexts : InitName(name)

NextAlbumName == GetAlbumName /\ UNCHANGED <<libVars, fetchVars, matchVars, searchVars, genreVars>>

SpecAlbumName == InitAlbumNames /\ [][NextAlbumName]_vars

\* get_genre_key, called with any genres in any order.
NextGenres ==
    \E genre \in Genres :
        get_genre_key(genre) /\ UNCHANGED <<libVars, fetchVars, matchVars, searchVars, nameVars>>

SpecGenres == Init /\ [][NextGenres]_vars

\* ---------------------------------------------------------------- duplicate groups
\* The identifiers the catalog held when remove_duplicates was called, the
\* tracks that carried one, and those of them that are still in the catalog.
PreIdentifiers == {get_track_identifier(pre_tracks[i]) : i \in DOMAIN pre_tracks}

Group(ident) == {i \in DOMAIN pre_tracks : get_track_identifier(pre_tracks[i]) = ident}

Survivors(ident) == Group(ident) \cap DOMAIN tracks

RECURSIVE SumPlays(_)
SumPlays(S) ==
    IF S = {} THEN 0
    ELSE LET i == CHOOSE x \in S : TRUE IN pre_tracks[i].plays + SumPlays(S \ {i})

RECURSIVE SumRatings(_)
SumRatings(S) ==
    IF S = {} THEN 0
    ELSE LET i == CHOOSE x \in S : TRUE IN pre_tracks[i].rating[1] + SumRatings(S \ {i})

\* C1: after remove_duplicates the survivor of every duplicate group has the sum
\* of the group's play counts and the OR of its loved flags, both as they were
\* before the call.
C1_PlaysSummedLovedOred ==
    pc = "done" =>
        \A ident \in PreIdentifiers :
            /\ Survivors(ident) # {}
            /\ \A s \in Survivors(ident) :
                /\ tracks[s].plays = SumPlays(Group(ident))
                /\ tracks[s].loved = (\E i \in Group(ident) : pre_tracks[i].loved)

\* A group of two or more whose members both have plays and differ in loved.
C1_Witness ==
    /\ pc = "done"
    /\ \E ident \in PreIdentifiers :
        \E i, j \in Group(ident) :
            /\ i # j
            /\ pre_tracks[i].plays > 0 /\ pre_tracks[j].plays > 0
            /\ pre_tracks[i].loved /\ ~pre_tracks[j].loved
            /\ \E s \in Survivors(ident) : tracks[s].plays >= 2 /\ tracks[s].loved

\* C2: after remove_duplicates the survivor's rating is the exact mean of the
\* group's non-null ratings (rating * count = sum), and null when no member of
\* the group has a rating.
C2_RatingIsExactMean ==
    pc = "done" =>
        \A ident \in PreIdentifiers :
            /\ Survivors(ident) # {}
            /\ \A s \in Survivors(ident) :
                LET rated == {i \in Group(ident) : pre_tracks[i].rating # NoRating}
                    rating == tracks[s].rating
                IN  /\ \A i \in rated : pre_tracks[i].rating[2] = 1
                    /\ IF rated = {} THEN rating = NoRating
                       ELSE /\ rating[2] > 0
                            /\ rating[1] * Cardinality(rated) = rating[2] * SumRatings(rated)

\* A group with a null rating and two ratings whose mean is no integer.
C2_Witness ==
    /\ pc = "done"
    /\ \E ident \in PreIdentifiers :
        /\ \E i \in Group(ident) : pre_tracks[i].rating = NoRating
        /\ \E s \in Survivors(ident) : tracks[s].rating[2] = 2

\* C3: after remove_duplicates exactly one track of every duplicate group is
\* left, so no two tracks share an identifier, and no track came from nowhere.
C3_OneSurvivorPerIdentifier ==
    pc = "done" =>
        /\ DOMAIN tracks \subseteq DOMAIN pre_tracks
        /\ \A ident \in PreIdentifiers : Cardinality(Survivors(ident)) = 1
        /\ \A i, j \in DOMAIN tracks :
               get_track_identifier(tracks[i]) = get_track_identifier(tracks[j]) => i = j

\* A group spread over two albums beside a track whose identifier is unique.
C3_Witness ==
    /\ pc = "done"
    /\ \E ident, other \in PreIdentifiers :
        /\ \E i, j \in Group(ident) : pre_tracks[i].album_id # pre_tracks[j].album_id
        /\ Cardinality(Group(other)) = 1
        /\ Group(other) \subseteq DOMAIN tracks
        /\ Cardinality(DOMAIN tracks) = 2

\* The year of a track's album and the album's size, before the call.
PreYear(i) == pre_tracks[i].album_id[2]

PreCount(i) == Cardinality(pre_albums[pre_tracks[i].album_id].tracks)

\* Album of i is better than album of j: later year, or same year and more tracks.
Better(i, j) ==
    \/ PreYear(i) > PreYear(j)
    \/ PreYear(i) = PreYear(j) /\ PreCount(i) > PreCount(j)

C5_NoEmptyAlbumOrArtist ==
    /\ \A k \in DOMAIN albums : albums[k].tracks # {}
    /\ \A a \in DOMAIN artists : artists[a].albums # {}

\* A call that deleted an album and an artist.
C5_Witness ==
    /\ pc = "done"
    /\ DOMAIN albums # DOMAIN pre_albums
    /\ DOMAIN artists # DOMAIN pre_artists

\* ---------------------------------------------------------------- feature requests
\* C6: when the request of one chunk runs out of transient-error retries,
\* _get_audio_features abandons that chunk only: it does not raise, and by the
\* time it returns it has issued the request of every chunk of the list.
C6_ExhaustedChunkIsIsolated ==
    exhausted # {} =>
        /\ fpc # "raised"
        /\ fpc = "returned" =>
              Len(requests) = (num_tracks + MAX_REQUEST_TRACKS - 1) \div MAX_REQUEST_TRACKS

\* C7: a request that has met transient errors only has failed at most
\* MAX_RETRY times while it is still being attempted, and is given up (None is
\* returned) at exactly its (MAX_RETRY + 1)-th failure, with no sleep.
C7_TransientErrorsGiveFourAttempts ==
    /\ (fpc = "request" /\ sleeps = 0) => attempts <= MAX_RETRY
    /\ (fpc = "raised" /\ last_status \in RETRY_CODES /\ sleeps = 0) =>
          (attempts = MAX_RETRY + 1 /\ result = "None")

C7_Witness ==
    /\ fpc = "raised"
    /\ result = "None"
    /\ last_status \in RETRY_CODES
    /\ sleeps = 0
    /\ attempts = MAX_RETRY + 1

\* C8: every attempt that fails with 'too many requests' is followed by one
\* sleep, after which the same request is attempted again, whatever the value
\* of the retry counter.
C8_RateLimitAlwaysSleepsAndRetries ==
    [][(fpc = "request" /\ attempts' = attempts + 1 /\ last_status' = WAIT_CODE) =>
          (sleeps' = sleeps + 1 /\ fpc' = "request" /\ requests' = requests)]_vars

C8_Witness ==
    /\ fpc = "request"
    /\ last_status = WAIT_CODE
    /\ retried > MAX_RETRY
    /\ sleeps >= 1

\* The ids of the argument tracks, in list order.
TrackIds == [k \in 1..num_tracks |-> spotify_tracks[k].id]

RECURSIVE Concat(_, _)
Concat(seqs, j) == IF j > Len(seqs) THEN <<>> ELSE seqs[j] \o Concat(seqs, j + 1)

\* C9: every request carries the next contiguous slice of the list, of at most
\* MAX_REQUEST_TRACKS ids and of exactly that many unless it is the last one;
\* when no request raised, the function returns after ceil(n / 100) requests
\* whose slices, concatenated in issue order, are the list.
C9_RequestsPartitionTheList ==
    /\ \A j \in 1..Len(requests) :
          /\ Len(requests[j]) <= MAX_REQUEST_TRACKS
          /\ j < Len(requests) => Len(requests[j]) = MAX_REQUEST_TRACKS
          /\ \A i \in 1..Len(requests[j]) :
                /\ MAX_REQUEST_TRACKS * (j - 1) + i <= num_tracks
                /\ requests[j][i] = TrackIds[MAX_REQUEST_TRACKS * (j - 1) + i]
    /\ (fpc = "returned" /\ abandoned = {}) =>
          /\ Len(requests) = (num_tracks + MAX_REQUEST_TRACKS - 1) \div MAX_REQUEST_TRACKS
          /\ Concat(requests, 1) = TrackIds

C9_Witness ==
    /\ fpc = "returned"
    /\ abandoned = {}
    /\ Len(requests) = 3
    /\ Len(requests[1]) = MAX_REQUEST_TRACKS
    /\ Len(requests[2]) = MAX_REQUEST_TRACKS
    /\ Len(requests[3]) = num_tracks - 2 * MAX_REQUEST_TRACKS
    /\ Len(requests[3]) < MAX_REQUEST_TRACKS

\* An entry that supplies every attribute of the schema, each a number.
Complete(entry) ==
    /\ ~entry.null
    /\ DOMAIN entry.attrs = FeatureNames
    /\ \A f \in FeatureNames : entry.attrs[f][1] = "num"

DistinctIds == \A k, m \in 1..num_tracks : TrackIds[k] = TrackIds[m] => k = m

\* C10: once a chunk's response has been bound, a track of the chunk (the
\* tracks having distinct Spotify ids) is in r_tracks if and only if its entry
\* is complete, and then carries the entry's values unchanged.
C10_IncludedIffEntryComplete ==
    (fpc = "loop" /\ result = "response" /\ DistinctIds) =>
        LET chunk == requests[Len(requests)]
            base == lower_index - Len(chunk)
        IN  \A i \in 1..Len(chunk) :
                /\ (base + i) \in SeqToSet(r_tracks) <=> Complete(audio_features.list[i])
                /\ Complete(audio_features.list[i]) =>
                      features[base + i] = audio_features.list[i].attrs

\* ---------------------------------------------------------------- track matching
IsAlnum(c) == c \in {"a", "A"}

IsSpaceOrAlnum(c) == IsSpace(c) \/ IsAlnum(c)

\* The string without its characters that are neither alphanumeric nor
\* whitespace, its whitespace collapsed.
Stripped(string) == JoinSplit(SelectSeq(string, IsSpaceOrAlnum))

NameDimension(i, s) ==
    \/ lower(i.name) = lower(s.name)
    \/ Stripped(lower(i.name)) = Stripped(lower(s.name))

ArtistDimension(i, s) ==
    \/ {lower(a) : a \in i.artists} \cap {lower(a) : a \in s.artists} # {}
    \/ {Stripped(lower(a)) : a \in i.artists} \cap {Stripped(lower(a)) : a \in s.artists} # {}

\* C11: _is_track_match accepts if and only if the names are identical
\* lower-cased or after stripping every character that is neither alphanumeric
\* nor whitespace, and the artist sets share a member lower-cased or after the
\* same stripping.
C11_AcceptIffBothDimensionsMatch ==
    mpc = "returned" =>
        (is_match <=> (NameDimension(i_track, s_track) /\ ArtistDimension(i_track, s_track)))

\* C12: _check_name_artist_matches reports an artist match if and only if a
\* local artist is among the external artists; in particular never for an
\* empty local set, and also when local artists are missing from the candidate
\* or the candidate lists more.
C12_ArtistMatchIffShared ==
    mpc = "returned" =>
        /\ artist_matched <=>
              ({lower(a) : a \in i_track.artists} \cap {lower(a) : a \in s_track.artists} # {})
        /\ i_track.artists = {} => ~artist_matched

C12_Witness ==
    /\ mpc = "returned"
    /\ artist_matched
    /\ \E a \in i_track.artists : lower(a) \notin {lower(b) : b \in s_track.artists}
    /\ \E b \in s_track.artists : lower(b) \notin {lower(a) : a \in i_track.artists}

\* ---------------------------------------------------------------- identity resolution
Records_of(k) == {m \in 1..Len(matched_tracks) : matched_tracks[m].i_id = k}

Passing(k) ==
    IF searched[k].none THEN {}
    ELSE {j \in 1..Len(searched[k].list) :
             _is_track_match(search_tracks[k], searched[k].list[j])}

\* C13: every matched record carries the id of a candidate of its track's
\* search that passes _is_track_match; a track whose search gave no passing
\* candidate has no record, and the loop has gone on past it.
C13_MatchedOnlyIfCandidatePasses ==
    /\ \A m \in 1..Len(matched_tracks) :
          /\ matched_tracks[m].i_id \in DOMAIN searched
          /\ \E j \in Passing(matched_tracks[m].i_id) :
                searched[matched_tracks[m].i_id].list[j].id = matched_tracks[m].id
    /\ \A k \in DOMAIN searched :
          Passing(k) = {} => (Records_of(k) = {} /\ track_index >= k)

C13_Witness ==
    \E k \in DOMAIN searched :
        /\ ~searched[k].none
        /\ searched[k].list # <<>>
        /\ Passing(k) = {}
        /\ Records_of(k + 1) # {}

\* C15: a search that ends without results (None after the retries ran out or
\* after a non-retryable error, or another exception) skips that one track:
\* the loop is at the next track, matched_tracks is as it was, and nothing is
\* raised.
C15_FailedSearchSkipsOneTrack ==
    [][(spc = "request" /\ result' \in {"None", "exception"}) =>
          /\ spc' = "loop"
          /\ track_index' = track_index + 1
          /\ matched_tracks' = matched_tracks
          /\ skipped' = skipped \cup {track_id}]_vars

C15_Witness ==
    /\ spc = "returned"
    /\ result = "None"
    /\ last_status \in RETRY_CODES
    /\ attempts = MAX_RETRY + 1
    /\ \E k \in skipped : Records_of(k) = {} /\ k > 1 /\ Records_of(k - 1) # {}

\* ---------------------------------------------------------------- enriched records
HasAllAttributes(entry) == ~entry.null /\ DOMAIN entry.attrs = FeatureNames

\* C14: after a run of one successful request, every track whose response
\* entry has all attributes has a combined record under its local id that
\* joins its plays, rating and loved flag with its external id, popularity and
\* the entry's features, also when two tracks share an external id.
C14_OneRecordPerEnrichedTrack ==
    (fpc = "combined" /\ num_tracks <= MAX_REQUEST_TRACKS /\ result = "response") =>
        \A k \in 1..num_tracks :
            HasAllAttributes(audio_features.list[k]) =>
                /\ k \in DOMAIN combined
                /\ combined[k] =
                      [id |-> k,
                       spotify_id |-> spotify_tracks[k].id,
                       plays |-> LibraryTrack(k).plays,
                       rating |-> LibraryTrack(k).rating,
                       loved |-> LibraryTrack(k).loved,
                       popularity |-> spotify_tracks[k].popularity,
                       features |-> audio_features.list[k].attrs]

\* ---------------------------------------------------------------- merge order
\* The survivor of a group when its tracks are processed in ascending id
\* order: the least id among the tracks no other track's album is better than.
ReferenceSurvivor(ident) ==
    LET best == {i \in Group(ident) : \A j \in Group(ident) : ~Better(j, i)}
    IN  CHOOSE s \in best : \A i \in best : s <= i

ReferenceKept ==
    {i \in DOMAIN pre_tracks : i = ReferenceSurvivor(get_track_identifier(pre_tracks[i]))}

\* C16: whatever the order in which a group's tracks were processed, the call
\* ends with the result that the ascending order gives: the same survivor with
\* the same plays and loved flag, and the same albums left.
C16_MergeIsOrderIndependent ==
    pc = "done" =>
        /\ \A ident \in PreIdentifiers :
              /\ Survivors(ident) = {ReferenceSurvivor(ident)}
              /\ \A s \in Survivors(ident) :
                    /\ tracks[s].plays = SumPlays(Group(ident))
                    /\ tracks[s].loved = (\E i \in Group(ident) : pre_tracks[i].loved)
        /\ DOMAIN albums = {pre_tracks[i].album_id : i \in ReferenceKept}

\* ---------------------------------------------------------------- survivor preference
\* C17, as stated: the survivor's album has the most tracks of the group's
\* albums, and the most recent year among those with as many tracks.
C17_CountFirstThenYear ==
    pc = "done" =>
        \A ident \in DOMAIN merged_tracks :
            \A s \in Survivors(ident) :
                \A i \in Group(ident) :
                    /\ PreCount(i) <= PreCount(s)
                    /\ PreCount(i) = PreCount(s) => PreYear(i) <= PreYear(s)

\* What lines 100-110 do instead: the survivor's album has the most recent
\* year of the group's albums, and the most tracks among those of that year.
YearFirstThenCount ==
    pc = "done" =>
        \A ident \in DOMAIN merged_tracks :
            \A s \in Survivors(ident) :
                \A i \in Group(ident) :
                    /\ PreYear(i) <= PreYear(s)
                    /\ PreYear(i) = PreYear(s) => PreCount(i) <= PreCount(s)

\* A group merged onto the later album although the older one holds more tracks.
LaterAlbumBeatsLargerAlbum ==
    /\ pc = "done"
    /\ \E ident \in DOMAIN merged_tracks :
          \E s \in Survivors(ident), i \in Group(ident) :
              PreYear(s) > PreYear(i) /\ PreCount(s) < PreCount(i)

\* ---------------------------------------------------------------- failures
\* Each track's album existed and held the track's id when the call began.
WellFiledBefore ==
    \A id \in DOMAIN pre_tracks :
        /\ pre_tracks[id].album_id \in DOMAIN pre_albums
        /\ id \in pre_albums[pre_tracks[id].album_id].tracks

\* Whether the call, not yet returned, is at a step that does not raise: an
\* iteration of the second loop, the head or an iteration of the third, or
\* the return.
CanStep ==
    IF ~MergeLoopOver
    THEN \E ident \in duplicate_identifiers \ DOMAIN merged_tracks : ~MergeRaises(ident)
    ELSE IF ~InnerLoopOver
    THEN ~RemovalRaises(identifier_to_index[cur_identifier][dup_index + 1])
    ELSE TRUE

\* The albums the call has deleted so far.
EmptiedAlbums == (DOMAIN pre_albums) \ (DOMAIN albums)

\* An emptied album listed a name that never had an artist entry.
EmptiedAlbumListsUnknownArtist ==
    \E album_id \in EmptiedAlbums :
        \E a \in pre_albums[album_id].artists : a \notin DOMAIN pre_artists

\* An emptied album listed an artist whose album set did not hold its key.
EmptiedAlbumMissingFromArtist ==
    \E album_id \in EmptiedAlbums :
        \E a \in pre_albums[album_id].artists :
            /\ a \in DOMAIN artists
            /\ album_id \notin pre_artists[a].albums

\* Two duplicates of one group were discarded one after the other, each the
\* only track of its album, and both albums listed an artist whose only album
\* was the first: the cascade of the first deleted the artist's entry, and the
\* cascade of the second met the name without an entry.
EmptiedAlbumListsDeletedArtist ==
    \E ident \in DOMAIN duplicate_order :
        LET order == duplicate_order[ident]
        IN  \E p, q \in 1..Len(order) :
                LET first == pre_tracks[order[p]].album_id
                    second == pre_tracks[order[q]].album_id
                IN  /\ p < q
                    /\ first # second
                    /\ {first, second} \subseteq EmptiedAlbums
                    /\ pre_albums[first].tracks = {order[p]}
                    /\ pre_albums[second].tracks = {order[q]}
                    /\ \E a \in pre_albums[first].artists \cap pre_albums[second].artists :
                          /\ a \in DOMAIN pre_artists
                          /\ pre_artists[a].albums = {first}

\* C18: on a catalog in which each track's album exists and holds the track's
\* id, remove_duplicates never raises: no step of it ends with an error, and
\* until it has returned a step that does not raise can be taken, whatever
\* entries the artists listed by an emptied album have or lack.
C18_WellFiledCatalogNeverRaises ==
    (pc \in {"running", "raised"} /\ WellFiledBefore) =>
        /\ pc = "running"
        /\ \A ident \in duplicate_identifiers \ DOMAIN merged_tracks : ~MergeRaises(ident)
        /\ (cur_identifier # <<>> /\ dup_index < Len(identifier_to_index[cur_identifier]))
              => ~RemovalRaises(identifier_to_index[cur_identifier][dup_index + 1])
        /\ CanStep

\* The call returned after a cascade that met an artist deleted by an earlier
\* cascade of the same call.
C18_Witness ==
    /\ pc = "done"
    /\ WellFiledBefore
    /\ EmptiedAlbumListsDeletedArtist

\* The tracks that share their identifier with another track and named, when
\* the call began, an album key the album table did not have.
DuplicatesOfAbsentAlbum ==
    {id \in DOMAIN pre_tracks :
        /\ pre_tracks[id].album_id \notin DOMAIN pre_albums
        /\ \E other \in (DOMAIN pre_tracks) \ {id} :
              get_track_identifier(pre_tracks[other]) = get_track_identifier(pre_tracks[id])}

\* C19: when a track of a duplicate group names an album key absent from the
\* album table, remove_duplicates does not return: as long as it runs, the
\* second loop has a group left whose iteration raises, the removal loop has
\* not begun, and the tracks, albums and artists are as they were at the call,
\* also once the error has been raised.
C19_AbsentAlbumRaisesBeforeAnyChange ==
    (pc # "populate" /\ DuplicatesOfAbsentAlbum # {}) =>
        /\ pc \in {"running", "raised"}
        /\ pc = "running" =>
              \E ident \in duplicate_identifiers \ DOMAIN merged_tracks : MergeRaises(ident)
        /\ cur_identifier = <<>>
        /\ tracks = pre_tracks
        /\ albums = pre_albums
        /\ artists = pre_artists

\* The call raised at a later track of a group whose first track was filed
\* on an album of the table.
C19_Witness ==
    /\ pc = "raised"
    /\ \E ident \in duplicate_identifiers :
          LET order == identifier_to_index[ident]
          IN  /\ pre_tracks[order[1]].album_id \in DOMAIN pre_albums
              /\ \E p \in 2..Len(order) : order[p] \in DuplicatesOfAbsentAlbum

\* ---------------------------------------------------------------- album artists
\* The catalog was as _get_library builds it when remove_duplicates was
\* called: every track rated, every artist entry holding the albums of the
\* tracks of which the artist is the main artist, and at least one.
ParsedCatalog ==
    /\ \A id \in DOMAIN pre_tracks : pre_tracks[id].rating # NoRating
    /\ \A a \in DOMAIN pre_artists :
          /\ pre_artists[a].albums # {}
          /\ pre_artists[a].albums =
                 {pre_tracks[id].album_id :
                      id \in {i \in DOMAIN pre_tracks : pre_tracks[i].artists[1] = a}}

\* The artists of the tracks that are members of the album now.
MemberArtists(album_key) ==
    UNION {SeqToSet(tracks[id].artists) : id \in albums[album_key].tracks \cap DOMAIN tracks}

\* C20: in the catalog extract_library returns, every album's artist set is
\* the union of the artist lists of the tracks in its member set.
C20_AlbumArtistsAreMembersArtists ==
    (pc = "done" /\ ParsedCatalog) =>
        \A album_key \in DOMAIN albums : albums[album_key].artists = MemberArtists(album_key)

\* ---------------------------------------------------------------- cascade
\* C25: a step of remove_duplicates removes an album only when the track it
\* discards was the album's last member, and an artist only when the key of
\* the album removed in that step was the artist's last album key; an album
\* with a member left and an artist with a key left stay in the catalog.
C25_RemovedOnlyWhenJustEmptied ==
    [][ LET discarded == (DOMAIN tracks) \ (DOMAIN tracks')
            removed_albums == (DOMAIN albums) \ (DOMAIN albums')
            removed_artists == (DOMAIN artists) \ (DOMAIN artists')
        IN  pc = "running" =>
              /\ \A album_id \in removed_albums :
                    /\ discarded # {}
                    /\ albums[album_id].tracks = discarded
              /\ \A a \in removed_artists :
                    /\ artists[a].albums # {}
                    /\ artists[a].albums \subseteq removed_albums
              /\ \A album_id \in DOMAIN albums :
                    albums[album_id].tracks \ discarded # {} => album_id \in DOMAIN albums'
              /\ \A a \in DOMAIN artists :
                    artists[a].albums \ removed_albums # {} => a \in DOMAIN artists'
      ]_vars

\* The call returned having removed an album and its artist, having kept an
\* album that lost a member, and having kept an artist that lost an album key.
C25_Witness ==
    /\ pc = "done"
    /\ (DOMAIN pre_albums) \ (DOMAIN albums) # {}
    /\ (DOMAIN pre_artists) \ (DOMAIN artists) # {}
    /\ \E album_id \in DOMAIN albums :
          albums[album_id].tracks # pre_albums[album_id].tracks
    /\ \E a \in DOMAIN artists : artists[a].albums # pre_artists[a].albums

\* ---------------------------------------------------------------- referential integrity
\* Every track's album is in the album table and has the track among its
\* members; every member of an album is in the track table; every album key
\* an artist holds is in the album table.
Integrity(t, al, ar) ==
    /\ \A id \in DOMAIN t :
          /\ t[id].album_id \in DOMAIN al
          /\ id \in al[t[id].album_id].tracks
    /\ \A album_id \in DOMAIN al : al[album_id].tracks \subseteq DOMAIN t
    /\ \A a \in DOMAIN ar : ar[a].albums \subseteq DOMAIN al

\* A track is a member of the album its album_id names only.
SingleMembership(t, al) ==
    \A album_id \in DOMAIN al :
        \A id \in al[album_id].tracks \cap DOMAIN t : t[id].album_id = album_id

\* An artist holds the keys of albums that list the artist only.
ArtistsListed(al, ar) ==
    \A a \in DOMAIN ar :
        \A album_id \in ar[a].albums \cap DOMAIN al : a \in al[album_id].artists

\* C29, as stated: referential integrity at the call gives referential
\* integrity at the return.
C29_IntegrityPreserved ==
    (pc = "done" /\ Integrity(pre_tracks, pre_albums, pre_artists))
        => Integrity(tracks, albums, artists)

\* C29, amended: referential integrity at the call gives referential integrity
\* at the return when, at the call, no track is a member of a second album and
\* every artist is listed by the albums whose keys the artist holds (as in a
\* catalog populated by _add_track_to_library).
C29_IntegrityPreservedWhenListed ==
    (/\ pc = "done"
     /\ Integrity(pre_tracks, pre_albums, pre_artists)
     /\ SingleMembership(pre_tracks, pre_albums)
     /\ ArtistsListed(pre_albums, pre_artists))
        => Integrity(tracks, albums, artists)

\* The call returned, on such a catalog, having removed an album whose key a
\* surviving artist held.
C29_Witness ==
    /\ pc = "done"
    /\ Integrity(pre_tracks, pre_albums, pre_artists)
    /\ SingleMembership(pre_tracks, pre_albums)
    /\ ArtistsListed(pre_albums, pre_artists)
    /\ \E a \in DOMAIN artists : pre_artists[a].albums \cap EmptiedAlbums # {}

\* ---------------------------------------------------------------- main artists
\* The remaining tracks of which a is the main (first) artist.
MainTracks(a) == {id \in DOMAIN tracks : tracks[id].artists[1] = a}

\* C30: in a catalog populated by _add_track_to_library, after the call
\* every artist is the main artist of a remaining track, and every album key
\* an artist holds names an album with a member of which the artist is the
\* main artist.
C30_ArtistsLiveThroughMainTracks ==
    (pc = "done" /\ ParsedCatalog) =>
        \A a \in DOMAIN artists :
            /\ MainTracks(a) # {}
            /\ \A album_id \in artists[a].albums :
                  /\ album_id \in DOMAIN albums
                  /\ albums[album_id].tracks \cap MainTracks(a) # {}

\* The part of C30 that the code keeps: every artist is the main artist of a
\* remaining track.
EveryArtistHasMainTrack ==
    (pc = "done" /\ ParsedCatalog) => \A a \in DOMAIN artists : MainTracks(a) # {}

\* ---------------------------------------------------------------- retry budget
\* C27: whatever the number of 'too many requests' waits of a request, it is
\* given up on a transient error only at the (MAX_RETRY + 1)-th attempt that
\* failed with a transient error.
C27_WaitsLeaveRetryBudget ==
    /\ (fpc = "request" /\ last_status \in RETRY_CODES) => attempts - sleeps <= MAX_RETRY
    /\ (fpc = "raised" /\ last_status \in RETRY_CODES) => attempts - sleeps = MAX_RETRY + 1

\* What the shared counter gives instead: a request is given up at the first
\* transient error met with retried at MAX_RETRY, waits included.
WaitsUseRetryBudget ==
    (fpc = "raised" /\ last_status \in RETRY_CODES) =>
        /\ attempts = retried + 1
        /\ retried >= MAX_RETRY
        /\ attempts - sleeps <= MAX_RETRY + 1

\* C28: an error whose status is neither transient nor 'too many requests'
\* ends the request at that attempt, with None for a result and no exception,
\* as a transient error does once the retries are used up.
C28_OtherStatusReturnsNone ==
    /\ last_status \notin RETRY_CODES \cup {WAIT_CODE, 0} =>
          /\ fpc = "raised"
          /\ result = "None"
          /\ audio_features = NoResult
    /\ (fpc = "raised" /\ last_status \in RETRY_CODES) =>
          /\ result = "None"
          /\ audio_features = NoResult

\* The first attempt of a request failed with another status and the request
\* came to None.
C28_Witness ==
    /\ fpc = "raised"
    /\ result = "None"
    /\ last_status = NOT_FOUND
    /\ attempts = 1

\* ---------------------------------------------------------------- persistent throttling
\* C26, as stated: a request whose attempts were all answered 'too many
\* requests' goes on; it is left only on an answer of another kind (a
\* response, an error that is not retried, an exception of the attempt).
C26_ThrottledRequestNeverEnds ==
    [][(fpc = "request" /\ attempts = sleeps /\ fpc' # "request") =>
          result' \in {"response", "None", "exception"}]_vars

\* C26, amended: every request ends, also against a service that answers
\* every attempt with 'too many requests': the code bounds the waits by
\* nothing, but every wait nests one more call, the retry counter never
\* passes the depth the interpreter allows, and at that depth the request
\* ends with the interpreter's recursion error, which skips the chunk.
C26_RequestEndsWithinRecursionLimit ==
    /\ [](retried <= MaxDepth)
    /\ [][(result' = "recursion" /\ result # "recursion") =>
             (fpc = "request" /\ retried = MaxDepth /\ fpc' = "loop")]_vars
    /\ (fpc = "request") ~> (fpc # "request")

\* A request against a persistently throttling service was ended by the
\* recursion limit and its chunk skipped.
C26_Witness ==
    /\ throttle = Persistent
    /\ result = "recursion"
    /\ abandoned # {}
    /\ fpc = "returned"

\* ---------------------------------------------------------------- ranked candidates
\* The first candidate of track k's search, in the order of the response,
\* that passes _is_track_match.
FirstPassing(k) == CHOOSE j \in Passing(k) : \A other \in Passing(k) : j <= other

\* C24: a library track has at most one matched record, and the record
\* carries the id and the popularity of the first candidate, in the order of
\* the response, that passes _is_track_match, whatever candidates follow it.
C24_FirstPassingCandidateWins ==
    \A k \in DOMAIN searched :
        /\ Cardinality(Records_of(k)) <= 1
        /\ \A m \in Records_of(k) :
              /\ Passing(k) # {}
              /\ matched_tracks[m].id = searched[k].list[FirstPassing(k)].id
              /\ "popularity" \in DOMAIN searched[k].list[FirstPassing(k)]
              /\ matched_tracks[m].popularity = searched[k].list[FirstPassing(k)].popularity
        /\ (Passing(k) # {} /\ track_index >= k) => Records_of(k) # {}

\* A track's search returned a candidate that passes and, after it, another
\* one that passes with another id, and the track was matched.
C24_Witness ==
    \E k \in DOMAIN searched :
        /\ Records_of(k) # {}
        /\ \E j \in Passing(k) :
              /\ j > FirstPassing(k)
              /\ searched[k].list[j].id # searched[k].list[FirstPassing(k)].id

\* ---------------------------------------------------------------- album names
\* The record's album name without its outer whitespace.
StrippedName == strip(album_name)

\* No token of s can begin a stripped pattern.
Plain(s) == \A i \in 1..Len(s) : s[i] \notin {"-", "(", "["}

\* s is a plain base, then a qualifier that holds something from position k to
\* the end.
QualifierSuffix(s, k, open, close) ==
    /\ k \in 1..(Len(s) - 2)
    /\ s[k] = open
    /\ s[Len(s)] = close
    /\ Plain(SubSeq(s, 1, k - 1))

\* s is a plain base, then "- Single" or "- EP" from position k to the end.
EditionSuffix(s, k) ==
    /\ k \in 1..(Len(s) - 1)
    /\ s[k] = "-"
    /\ SkipSpaces(s, k + 1) = Len(s)
    /\ s[Len(s)] \in {"Single", "EP"}
    /\ Plain(SubSeq(s, 1, k - 1))

\* The base before position k, without the whitespace that ends it.
Base(s, k) == rstrip(SubSeq(s, 1, k - 1))

QualifierKept ==
    /\ album_name = <<"x", " ", "(", "x", ")">>
    /\ names # <<>>
    /\ names[1] = album_name

\* "x - Single" has been normalized to "x".
EditionStripped ==
    /\ album_name = <<"x", " ", "-", " ", "Single">>
    /\ names # <<>>
    /\ names[1] = <<"x">>

\* C22: get_album_name is idempotent: normalizing a normalized name returns
\* it unchanged.
C22_Idempotent == Len(names) >= 2 => names[2] = names[1]

\* A second normalization that changed the name.
NormalizedTwiceDiffers == Len(names) >= 2 /\ names[2] # names[1]

\* ---------------------------------------------------------------- genre registry
Registered == DOMAIN _genre_map

\* The genres and the keys of the calls before the i-th, with what __init__ bound.
GenresBefore(i) == {genre_calls[k].genre : k \in 1..(i - 1)} \cup {None}
KeysBefore(i) == {genre_calls[k].key : k \in 1..(i - 1)} \cup {UNKNOWN_GENRE}

RegistryIsBijection ==
    /\ \A g, h \in Registered : _genre_map[g] = _genre_map[h] => g = h
    /\ {_genre_map[g] : g \in Registered} = 0..(Cardinality(Registered) - 1)
    /\ None \in Registered
    /\ _genre_map[None] = UNKNOWN_GENRE
    /\ \A i \in 1..Len(genre_calls) :
          /\ genre_calls[i].genre \in Registered
          /\ _genre_map[genre_calls[i].genre] = genre_calls[i].key
          /\ genre_calls[i].genre \notin GenresBefore(i) => genre_calls[i].key \notin KeysBefore(i)

RegistryIsAppendOnly ==
    /\ \A g \in Registered : g \in DOMAIN _genre_map' /\ _genre_map'[g] = _genre_map[g]
    /\ (genre_calls' # genre_calls /\ genre_calls'[Len(genre_calls')].genre \in Registered)
          => /\ _genre_map' = _genre_map
             /\ genre_calls'[Len(genre_calls')].key = _genre_map[genre_calls'[Len(genre_calls')].genre]

\* C23: after any get_genre_key calls the registry is a bijection between
\* the registered genres and the keys 0..n-1, with key 0 bound to None only;
\* a registered genre gets its original key and leaves the registry
\* unchanged, a new genre gets a key never handed out before, and no binding
\* is changed or removed.
C23_RegistryIsAppendOnlyBijection == []RegistryIsBijection /\ [][RegistryIsAppendOnly]_vars

\* Two genres have been registered and one of them has been asked for again.
C23_Witness ==
    /\ Cardinality(Registered) = 3
    /\ \E i, j \in 1..Len(genre_calls) :
          /\ i < j
          /\ genre_calls[i].genre = genre_calls[j].genre
          /\ genre_calls[i].genre # None
          /\ genre_calls[i].key = genre_calls[j].key

====
